---- MODULE Spec2Model ----
(***************************************************************************)
(* Model of pb-imgsize: read_bytes (src/lib.rs), the JPEG segment scanner  *)
(* (src/jpeg.rs) and the PNG chunk scanner (src/png.rs).                   *)
(*                                                                         *)
(* Bytes are integers 0..255.  Rust slices are 0-indexed; At(b, i) reads   *)
(* b[i].  A u32 is kept as the pair <<high 16 bits, low 16 bits>>, so that *)
(* all 32 bits of a width, a chunk length, a magic word or a CRC are kept. *)
(* A Rust panic (index out of range, unwrap of None) is the result Panic.  *)
(***************************************************************************)
EXTENDS Integers, Sequences, FiniteSets, TLC

(* ---------------------------------------------------------------- bounds *)
MaxRaw == 4
MaxSegs == 3
MaxMutSegs == 2
MaxBody == 2
MaxMutBody == 1

(* ------------------------------------------------------------ primitives *)
At(b, i) == b[i + 1]

InBounds(b, i) == i >= 0 /\ i < Len(b)

\* &b[from..to]
Slice(b, from, to) == [k \in 1..(to - from) |-> b[from + k]]

u16_from_be_bytes(b0, b1) == (b0 * 256) + b1

u32_from_be_bytes(b0, b1, b2, b3) == <<(b0 * 256) + b1, (b2 * 256) + b3>>

\* u16 -> u32 (w.into())
u32_from_u16(w) == <<0, w>>

\* data.starts_with(prefix)
starts_with(b, prefix) ==
    /\ Len(b) >= Len(prefix)
    /\ \A k \in 1..Len(prefix) : b[k] = prefix[k]

None == <<>>

(* ----------------------------------------------------------------- CRC32 *)
\* a XOR b for 4-bit a, b, at [a + 1][b + 1]
NibXor ==
    <<
       <<0, 1, 2, 3, 4, 5, 6, 7, 8, 9, 10, 11, 12, 13, 14, 15>>,
       <<1, 0, 3, 2, 5, 4, 7, 6, 9, 8, 11, 10, 13, 12, 15, 14>>,
       <<2, 3, 0, 1, 6, 7, 4, 5, 10, 11, 8, 9, 14, 15, 12, 13>>,
       <<3, 2, 1, 0, 7, 6, 5, 4, 11, 10, 9, 8, 15, 14, 13, 12>>,
       <<4, 5, 6, 7, 0, 1, 2, 3, 12, 13, 14, 15, 8, 9, 10, 11>>,
       <<5, 4, 7, 6, 1, 0, 3, 2, 13, 12, 15, 14, 9, 8, 11, 10>>,
       <<6, 7, 4, 5, 2, 3, 0, 1, 14, 15, 12, 13, 10, 11, 8, 9>>,
       <<7, 6, 5, 4, 3, 2, 1, 0, 15, 14, 13, 12, 11, 10, 9, 8>>,
       <<8, 9, 10, 11, 12, 13, 14, 15, 0, 1, 2, 3, 4, 5, 6, 7>>,
       <<9, 8, 11, 10, 13, 12, 15, 14, 1, 0, 3, 2, 5, 4, 7, 6>>,
       <<10, 11, 8, 9, 14, 15, 12, 13, 2, 3, 0, 1, 6, 7, 4, 5>>,
       <<11, 10, 9, 8, 15, 14, 13, 12, 3, 2, 1, 0, 7, 6, 5, 4>>,
       <<12, 13, 14, 15, 8, 9, 10, 11, 4, 5, 6, 7, 0, 1, 2, 3>>,
       <<13, 12, 15, 14, 9, 8, 11, 10, 5, 4, 7, 6, 1, 0, 3, 2>>,
       <<14, 15, 12, 13, 10, 11, 8, 9, 6, 7, 4, 5, 2, 3, 0, 1>>,
       <<15, 14, 13, 12, 11, 10, 9, 8, 7, 6, 5, 4, 3, 2, 1, 0>>
    >>

RECURSIVE Xor16(_, _)
Xor16(a, b) ==
    IF a = 0 THEN b
    ELSE IF b = 0 THEN a
    ELSE NibXor[(a % 16) + 1][(b % 16) + 1] + (16 * Xor16(a \div 16, b \div 16))

Xor32(x, y) == <<Xor16(x[1], y[1]), Xor16(x[2], y[2])>>

Shr32(x, k) == <<x[1] \div (2 ^ k), ((x[1] % (2 ^ k)) * (2 ^ (16 - k))) + (x[2] \div (2 ^ k))>>

\* the CRC-32 table (reflected polynomial 0xEDB88320): entry n at index n + 1,
\* each entry as <<high half, low half>>
CrcTable ==
    <<
       <<0, 0>>, <<30471, 12438>>, <<60942, 24876>>, <<39177, 20922>>,
       <<1901, 50201>>, <<28778, 62607>>, <<59747, 42293>>, <<40548, 38307>>,
       <<3803, 34866>>, <<31196, 47268>>, <<57557, 59678>>, <<38866, 55688>>,
       <<2486, 19499>>, <<32433, 31933>>, <<59320, 11527>>, <<37055, 7569>>,
       <<7607, 4196>>, <<27312, 8434>>, <<62393, 29000>>, <<33982, 16862>>,
       <<6874, 54397>>, <<28125, 58603>>, <<62676, 46417>>, <<33747, 34247>>,
       <<4972, 38998>>, <<25707, 43200>>, <<64866, 63866>>, <<35429, 51692>>,
       <<5121, 23631>>, <<25350, 27865>>, <<64015, 15715>>, <<36104, 3573>>,
       <<15214, 8392>>, <<19561, 4190>>, <<54624, 16868>>, <<41575, 29042>>,
       <<15363, 58577>>, <<19204, 54343>>, <<53773, 34301>>, <<42250, 46443>>,
       <<13749, 43258>>, <<17074, 39020>>, <<56251, 51670>>, <<44220, 63808>>,
       <<13016, 27875>>, <<17887, 23669>>, <<56534, 3535>>, <<43985, 15705>>,
       <<9945, 12460>>, <<20958, 58>>, <<51415, 20864>>, <<49104, 24854>>,
       <<8628, 62645>>, <<22195, 50211>>, <<53178, 38297>>, <<47293, 42255>>,
       <<10242, 47262>>, <<24325, 34824>>, <<50700, 55730>>, <<45323, 59684>>,
       <<12143, 31879>>, <<22632, 19473>>, <<49505, 7595>>, <<46694, 11581>>,
       <<30428, 16784>>, <<475, 28934>>, <<39122, 8380>>, <<61397, 4138>>,
       <<29105, 34185>>, <<1718, 46367>>, <<40895, 58533>>, <<59576, 54323>>,
       <<30727, 51618>>, <<3840, 63796>>, <<38409, 43150>>, <<57614, 38936>>,
       <<32618, 3515>>, <<2157, 15661>>, <<37220, 27799>>, <<58979, 23553>>,
       <<27499, 20980>>, <<7276, 24930>>, <<34149, 12504>>, <<62050, 78>>,
       <<27654, 38381>>, <<6913, 42363>>, <<33288, 62657>>, <<62735, 50263>>,
       <<26032, 55750>>, <<4791, 59728>>, <<35774, 47338>>, <<64697, 34940>>,
       <<25309, 7647>>, <<5594, 11593>>, <<36051, 31987>>, <<64468, 19557>>,
       <<19890, 24920>>, <<15029, 20942>>, <<41916, 116>>, <<54459, 12514>>,
       <<19167, 42305>>, <<15832, 38359>>, <<42193, 50285>>, <<54230, 62715>>,
       <<17257, 59754>>, <<13422, 55804>>, <<44391, 34886>>, <<55904, 47312>>,
       <<17412, 11635>>, <<13059, 7653>>, <<43530, 19551>>, <<56589, 31945>>,
       <<20485, 28988>>, <<9986, 16810>>, <<48651, 4112>>, <<51468, 8326>>,
       <<22376, 46373>>, <<8303, 34227>>, <<47462, 54281>>, <<52833, 58527>>,
       <<24286, 63758>>, <<10713, 51608>>, <<45264, 38946>>, <<51159, 43188>>,
       <<22963, 15639>>, <<11956, 3457>>, <<47037, 23611>>, <<49338, 27821>>,
       <<60856, 33568>>, <<39615, 46006>>, <<950, 57868>>, <<29873, 53914>>,
       <<60117, 18233>>, <<40402, 30639>>, <<1243, 9749>>, <<29660, 5763>>,
       <<58211, 2834>>, <<37988, 15236>>, <<3437, 27198>>, <<31338, 23208>>,
       <<58382, 53003>>, <<37641, 65437>>, <<2560, 44583>>, <<32007, 40625>>,
       <<61455, 37700>>, <<34568, 41938>>, <<7681, 62056>>, <<26886, 49918>>,
       <<63330, 22365>>, <<32869, 26571>>, <<6508, 13937>>, <<28267, 1767>>,
       <<65236, 7030>>, <<35283, 11232>>, <<4314, 31322>>, <<26589, 19148>>,
       <<63929, 57199>>, <<36542, 61433>>, <<6071, 48707>>, <<24752, 36565>>,
       <<54998, 41960>>, <<41425, 37758>>, <<14552, 49860>>, <<20447, 62034>>,
       <<53691, 26609>>, <<42684, 22375>>, <<16309, 1757>>, <<18610, 13899>>,
       <<55309, 11226>>, <<44810, 6988>>, <<13827, 19190>>, <<16644, 31328>>,
       <<57184, 61379>>, <<43111, 57173>>, <<12654, 36591>>, <<18025, 48761>>,
       <<52065, 45964>>, <<48230, 33562>>, <<9583, 53920>>, <<21096, 57910>>,
       <<52236, 30613>>, <<47883, 18179>>, <<8706, 5817>>, <<21765, 9775>>,
       <<50618, 15294>>, <<45757, 2856>>, <<11188, 23186>>, <<23731, 27140>>,
       <<49879, 65447>>, <<46544, 53041>>, <<11481, 40587>>, <<23518, 44573>>,
       <<39780, 49840>>, <<60515, 61990>>, <<30058, 41884>>, <<621, 37642>>,
       <<39945, 1705>>, <<60174, 13887>>, <<29191, 26501>>, <<1280, 22291>>,
       <<38335, 19074>>, <<58040, 31252>>, <<31665, 11182>>, <<3254, 6968>>,
       <<37586, 36507>>, <<58837, 48653>>, <<31964, 61367>>, <<3035, 57121>>,
       <<34515, 53972>>, <<61908, 57922>>, <<26845, 46072>>, <<8154, 33646>>,
       <<33214, 5837>>, <<63161, 9819>>, <<28592, 30689>>, <<6327, 18295>>,
       <<34824, 23270>>, <<65295, 27248>>, <<26118, 15306>>, <<4353, 2908>>,
       <<36709, 40703>>, <<63586, 44649>>, <<24939, 65491>>, <<5740, 53061>>,
       <<40970, 57976>>, <<55053, 53998>>, <<19972, 33620>>, <<14595, 46018>>,
       <<42855, 9825>>, <<53344, 5879>>, <<18793, 18253>>, <<15982, 30683>>,
       <<44753, 27210>>, <<55766, 23260>>, <<16607, 2918>>, <<14296, 15344>>,
       <<43452, 44627>>, <<57019, 40645>>, <<18354, 53119>>, <<12469, 65513>>,
       <<48573, 61980>>, <<51898, 49802>>, <<21427, 37680>>, <<9396, 41894>>,
       <<47824, 13829>>, <<52695, 1683>>, <<21726, 22313>>, <<9177, 26559>>,
       <<45926, 31278>>, <<50273, 19128>>, <<23912, 6914>>, <<10863, 11156>>,
       <<46091, 48695>>, <<49932, 36513>>, <<23045, 57115>>, <<11522, 61325>>
    >>

\* crc32fast::Hasher::update, one byte at a time
RECURSIVE CrcUpdate(_, _, _)
CrcUpdate(crc, bytes, k) ==
    IF k > Len(bytes) THEN crc
    ELSE LET next == Xor32(CrcTable[Xor16(crc[2] % 256, bytes[k]) + 1], Shr32(crc, 8))
         IN  IF next[1] >= 0 THEN CrcUpdate(next, bytes, k + 1) ELSE next

\* Hasher::new() ... update(type) ... update(data) ... finalize()
Crc32(bytes) == Xor32(CrcUpdate(<<65535, 65535>>, bytes, 1), <<65535, 65535>>)

(* --------------------------------------------------------------- results *)
\* Result<ImageMetadata, DecodingError> as one record shape: tag is "Ok", a
\* DecodingError / JpegDecodingError / PngDecodingError variant, or "Panic".
\* n holds a usize or u16 field, word a u32 field.
Res(tag) ==
    [tag |-> tag, width |-> <<0, 0>>, height |-> <<0, 0>>, comments |-> <<>>,
     n |-> 0, word |-> <<0, 0>>, position |-> 0]

ImageMetadata(width, height, comments) ==
    [Res("Ok") EXCEPT !.width = width, !.height = height, !.comments = comments]

TooShort(n) == [Res("TooShort") EXCEPT !.n = n]

UnknownMagic(word) == [Res("UnknownMagic") EXCEPT !.word = word]

NoSofMarker(position, comments) ==
    [Res("Jpeg.NoSofMarker") EXCEPT !.position = position, !.comments = comments]

SofDataTooShort(position) == [Res("Jpeg.SofDataTooShort") EXCEPT !.position = position]

InvalidFrameMarker(word, position) ==
    [Res("Jpeg.InvalidFrameMarker") EXCEPT !.n = word, !.position = position]

InvalidSegmentLength(len) == [Res("Jpeg.InvalidSegmentLength") EXCEPT !.n = len]

MissingIHDR == Res("Png.MissingIHDR")

InvalidIHDRLength(len) == [Res("Png.InvalidIHDRLength") EXCEPT !.word = len]

InvalidChunkCrc == Res("Png.InvalidChunkCrc")

Panic == Res("Panic")

\* no result yet
NoResult == Res("None")

(* ---------------------------------------------------------- JPEG scanner *)
\* self.buf.get(i): the byte, or -1 for None
get(b, i) == IF InBounds(b, i) THEN At(b, i) ELSE -1

\* memchr::memchr(needle, haystack): offset of the first match, or -1 for None
memchr(needle, haystack) ==
    IF \E k \in 1..Len(haystack) : haystack[k] = needle
    THEN (CHOOSE k \in 1..Len(haystack) :
              /\ haystack[k] = needle
              /\ \A j \in 1..(k - 1) : haystack[j] # needle) - 1
    ELSE -1

\* resync that gives up the search: the cursor goes to the end of the buffer
\* unless it already stands on a marker
resync_to_end(b, position) ==
    IF ~(position + 1 < Len(b)) THEN position
    ELSE IF At(b, position) = 255 /\ At(b, position + 1) > 1 THEN position
    ELSE Len(b)

RECURSIVE resync(_, _)
resync(b, position) ==
    IF ~(position + 1 < Len(b)) THEN position
    ELSE IF At(b, position) = 255 /\ At(b, position + 1) > 1 THEN position
    ELSE LET found == memchr(255, Slice(b, position + 1, Len(b)))
         IN  resync(b, IF found # -1 THEN position + found + 1 ELSE Len(b))

\* read_marker: [panic, marker, len, position]; position is self.position after
read_marker(b, position) ==
    IF ~InBounds(b, position) \/ ~InBounds(b, position + 1)
    THEN [panic |-> TRUE, marker |-> 0, len |-> 0, position |-> position]
    ELSE LET marker == u16_from_be_bytes(At(b, position), At(b, position + 1))
         IN  IF marker = 65496 \/ marker = 65497
             THEN [panic |-> FALSE, marker |-> marker, len |-> 0, position |-> position + 2]
             ELSE IF ~InBounds(b, position + 2) \/ ~InBounds(b, position + 3)
             THEN [panic |-> TRUE, marker |-> marker, len |-> 0, position |-> position]
             ELSE [panic |-> FALSE, marker |-> marker,
                   len |-> u16_from_be_bytes(At(b, position + 2), At(b, position + 3)),
                   position |-> position + 4]

NoSegment == [position |-> 0, marker |-> 0, data |-> <<>>]

\* read_segment: kind is "None", "Some", "Err" or "Panic"; position is
\* self.position after the call
read_segment(b, position) ==
    LET p1 == IF get(b, position) # 255 THEN resync(b, position) ELSE position
        none == [kind |-> "None", position |-> p1, segment |-> NoSegment, err |-> Panic]
    IN  IF get(b, p1) # 255 THEN none
        ELSE IF get(b, p1 + 1) = 217 THEN none
        ELSE IF p1 + 1 >= Len(b) THEN none
        ELSE LET original_position == p1
                 m == read_marker(b, p1)
             IN  IF m.panic
                 THEN [kind |-> "Panic", position |-> m.position,
                       segment |-> NoSegment, err |-> Panic]
                 ELSE IF m.len < 2 \/ m.position + m.len > Len(b)
                 THEN [kind |-> "Err", position |-> m.position,
                       segment |-> NoSegment, err |-> InvalidSegmentLength(m.len)]
                 ELSE [kind |-> "Some", position |-> m.position + m.len - 2,
                       segment |-> [position |-> original_position, marker |-> m.marker,
                                    data |-> Slice(b, m.position, m.position + m.len - 2)],
                       err |-> Panic]

\* is_sof over the whole range FFC0-FFCF
is_sof_whole_range(segment) ==
    /\ segment.marker >= 65472
    /\ segment.marker <= 65487

is_sof(segment) ==
    /\ segment.marker >= 65472
    /\ segment.marker <= 65487
    /\ segment.marker # 65476
    /\ segment.marker # 65480

is_com(segment) == segment.marker = 65534

\* read_sof with the two fields taken in the other order
read_sof_width_first(segment) ==
    IF Len(segment.data) < 5
    THEN [err |-> TRUE, width |-> 0, height |-> 0]
    ELSE [err |-> FALSE,
          width |-> u16_from_be_bytes(segment.data[2], segment.data[3]),
          height |-> u16_from_be_bytes(segment.data[4], segment.data[5])]

\* read_sof without the length test: bytes the payload lacks read as 0
read_sof_unchecked(segment) ==
    LET byte(k) == IF k <= Len(segment.data) THEN segment.data[k] ELSE 0
    IN  [err |-> FALSE,
         height |-> u16_from_be_bytes(byte(2), byte(3)),
         width |-> u16_from_be_bytes(byte(4), byte(5))]

\* read_sof: [err, width, height]
read_sof(segment) ==
    IF Len(segment.data) < 5
    THEN [err |-> TRUE, width |-> 0, height |-> 0]
    ELSE [err |-> FALSE,
          height |-> u16_from_be_bytes(segment.data[2], segment.data[3]),
          width |-> u16_from_be_bytes(segment.data[4], segment.data[5])]

into_data(segment) == segment.data

\* push that inserts at the front
push_front(comments, comment) == <<comment>> \o comments

\* context.comments.push(comment) / comments.push(text.to_vec())
push(comments, comment) == Append(comments, comment)

\* context.dimensions.replace((w.into(), h.into()))
replace_dimensions(dimensions, w, h) == <<u32_from_u16(w), u32_from_u16(h)>>

\* one iteration of the `while let Some(segment) = context.read_segment()?`
\* loop of read_jpeg_data; c is the JpegContext [position, comments, dimensions]
\* and the value is the context with pc ("jpeg" loop again, "try_into" loop
\* left, "done" returned) and result
jpeg_iteration(b, c) ==
    LET s == read_segment(b, c.position)
        segment == s.segment
        marker == segment.marker
        base == [pc |-> "done", position |-> s.position, comments |-> c.comments,
                 dimensions |-> c.dimensions, result |-> NoResult]
    IN  IF s.kind = "Panic" THEN [base EXCEPT !.result = Panic]
        ELSE IF s.kind = "Err" THEN [base EXCEPT !.result = s.err]
        ELSE IF s.kind = "None" THEN [base EXCEPT !.pc = "try_into"]
        ELSE IF marker < 65281 \/ marker = 65535
        THEN [base EXCEPT !.result = InvalidFrameMarker(marker, s.position)]
        ELSE IF marker = 65497 \/ marker = 65498
        THEN [base EXCEPT !.pc = "try_into"]
        ELSE IF is_sof(segment)
        THEN LET d == read_sof(segment)
             IN  IF d.err
                 THEN [base EXCEPT !.result = SofDataTooShort(segment.position)]
                 ELSE [base EXCEPT !.pc = "jpeg",
                                   !.dimensions = replace_dimensions(c.dimensions, d.width, d.height)]
        ELSE IF is_com(segment)
        THEN [base EXCEPT !.pc = "jpeg", !.comments = push(c.comments, into_data(segment))]
        ELSE [base EXCEPT !.pc = "jpeg"]

\* try_from that drops the collected comments from the error
try_from_without_comments(c) ==
    IF c.dimensions # None
    THEN ImageMetadata(c.dimensions[1], c.dimensions[2], c.comments)
    ELSE NoSofMarker(c.position, <<>>)

\* impl TryFrom<JpegContext> for ImageMetadata
try_from(c) ==
    IF c.dimensions # None
    THEN ImageMetadata(c.dimensions[1], c.dimensions[2], c.comments)
    ELSE NoSofMarker(c.position, c.comments)

RECURSIVE jpeg_loop(_, _)
jpeg_loop(b, c) ==
    LET n == jpeg_iteration(b, c)
    IN  IF n.pc = "jpeg" THEN jpeg_loop(b, n)
        ELSE IF n.pc = "try_into" THEN try_from(n)
        ELSE n.result

\* read_jpeg_data as a function of the buffer
read_jpeg_data(b) ==
    jpeg_loop(b, [position |-> 2, comments |-> <<>>, dimensions |-> None])

(* ----------------------------------------------------------- PNG scanner *)
IHDR == <<73, 72, 68, 82>>
tEXt == <<116, 69, 88, 116>>
IEND == <<73, 69, 78, 68>>
\* b"comment"
comment_keyword == <<99, 111, 109, 109, 101, 110, 116>>

\* the bounds check on the low 16 bits of the length alone
length_overruns_low_half(b, pos, chunk_length) ==
    pos + chunk_length[2] + 4 > Len(b)

\* pos + chunk_length as usize + 4 > buf.len(), in a 64-bit usize (no wrap);
\* buffers are shorter than 2^16 bytes, so a length with a nonzero high half
\* always exceeds the buffer
length_overruns(b, pos, chunk_length) ==
    chunk_length[1] > 0 \/ pos + chunk_length[2] + 4 > Len(b)

\* splitn2 that splits at the last NUL of the payload
splitn2_last_nul(chunk_data) ==
    LET nuls == {k \in 1..Len(chunk_data) : chunk_data[k] = 0}
    IN  IF nuls = {} THEN <<chunk_data>>
        ELSE LET at == CHOOSE k \in nuls : \A j \in nuls : j <= k
             IN  <<SubSeq(chunk_data, 1, at - 1), SubSeq(chunk_data, at + 1, Len(chunk_data))>>

\* chunk_data.splitn(2, |&b| b == 0): <<keyword>> or <<keyword, text>>
splitn2(chunk_data) ==
    LET at == memchr(0, chunk_data)
    IN  IF at = -1 THEN <<chunk_data>>
        ELSE <<Slice(chunk_data, 0, at), Slice(chunk_data, at + 1, Len(chunk_data))>>

\* ihdr_dimensions read as signed 31-bit values (top bit dropped)
ihdr_dimensions_31bit(chunk_data) ==
    <<u32_from_be_bytes(chunk_data[1] % 128, chunk_data[2], chunk_data[3], chunk_data[4]),
      u32_from_be_bytes(chunk_data[5] % 128, chunk_data[6], chunk_data[7], chunk_data[8])>>

\* the width and height read from the IHDR payload: <<width, height>>
ihdr_dimensions(chunk_data) ==
    <<u32_from_be_bytes(chunk_data[1], chunk_data[2], chunk_data[3], chunk_data[4]),
      u32_from_be_bytes(chunk_data[5], chunk_data[6], chunk_data[7], chunk_data[8])>>

\* the loop condition of read_png_data
png_loop_condition(b, pos) == pos + 12 < Len(b)

\* one evaluation of `while pos + 12 < buf.len() { ... }` in read_png_data;
\* c is [pos, comments, dimensions] and the value adds pc ("png" loop again,
\* "png_end" loop left, "done" returned) and result
png_iteration(b, c) ==
    LET base == [pc |-> "done", pos |-> c.pos, comments |-> c.comments,
                 dimensions |-> c.dimensions, result |-> NoResult]
    IN  IF ~png_loop_condition(b, c.pos) THEN [base EXCEPT !.pc = "png_end"]
        ELSE
        LET chunk_length == u32_from_be_bytes(At(b, c.pos), At(b, c.pos + 1),
                                              At(b, c.pos + 2), At(b, c.pos + 3))
            p1 == c.pos + 4
            chunk_type == Slice(b, p1, p1 + 4)
            p2 == p1 + 4
        IN  IF length_overruns(b, p2, chunk_length)
            THEN [base EXCEPT !.pos = p2, !.result = InvalidChunkCrc]
            ELSE
            LET chunk_data == Slice(b, p2, p2 + chunk_length[2])
                p3 == p2 + chunk_length[2]
                chunk_crc == u32_from_be_bytes(At(b, p3), At(b, p3 + 1),
                                               At(b, p3 + 2), At(b, p3 + 3))
                p4 == p3 + 4
                next == [base EXCEPT !.pos = p4]
            IN  IF Crc32(chunk_type \o chunk_data) # chunk_crc
                THEN [next EXCEPT !.result = InvalidChunkCrc]
                ELSE IF chunk_type = IHDR
                THEN IF chunk_length # <<0, 13>>
                     THEN [next EXCEPT !.result = InvalidIHDRLength(chunk_length)]
                     ELSE [next EXCEPT !.pc = "png", !.dimensions = ihdr_dimensions(chunk_data)]
                ELSE IF chunk_type = tEXt
                THEN LET parts == splitn2(chunk_data)
                     IN  IF Len(parts) < 2
                         THEN [next EXCEPT !.result = Panic]
                         ELSE IF parts[1] = comment_keyword
                         THEN [next EXCEPT !.pc = "png",
                                           !.comments = push(c.comments, parts[2])]
                         ELSE [next EXCEPT !.pc = "png"]
                ELSE IF chunk_type = IEND
                THEN [next EXCEPT !.pc = "png_end"]
                ELSE [next EXCEPT !.pc = "png"]

\* let (width, height) = dimensions.ok_or(MissingIHDR)?; Ok(ImageMetadata{..})
png_finish(c) ==
    IF c.dimensions # None
    THEN ImageMetadata(c.dimensions[1], c.dimensions[2], c.comments)
    ELSE MissingIHDR

RECURSIVE png_loop(_, _)
png_loop(b, c) ==
    LET n == png_iteration(b, c)
    IN  IF n.pc = "png" THEN png_loop(b, n)
        ELSE IF n.pc = "png_end" THEN png_finish(n)
        ELSE n.result

\* read_png_data as a function of the buffer
read_png_data(b) ==
    png_loop(b, [pos |-> 8, comments |-> <<>>, dimensions |-> None])

(* ------------------------------------------------------------ dispatcher *)
JpegMagic == <<255, 216>>
PngMagic == <<137, 80, 78, 71>>

\* the length reported by DecodingError::TooShort
too_short_length(b) == 0

\* read_bytes that takes any buffer beginning FF for a JPEG
read_bytes_branch_first_byte(b) ==
    IF Len(b) < 4 THEN "TooShort"
    ELSE IF starts_with(b, <<255>>) THEN "jpeg"
    ELSE IF starts_with(b, PngMagic) THEN "png"
    ELSE "UnknownMagic"

\* read_bytes: which branch is taken
read_bytes_branch(b) ==
    IF Len(b) < 4 THEN "TooShort"
    ELSE IF starts_with(b, JpegMagic) THEN "jpeg"
    ELSE IF starts_with(b, PngMagic) THEN "png"
    ELSE "UnknownMagic"

(* ---------------------------------------------------------------- inputs *)
\* All sequences over S of length at most n
SeqsUpTo(S, n) == UNION {[1..k -> S] : k \in 0..n}

RECURSIVE Concat(_)
Concat(ss) == IF ss = <<>> THEN <<>> ELSE Head(ss) \o Concat(Tail(ss))

\* JPEG segments the inputs are built from: marker low byte and payload
\*   1 APP0   2 COM "a"   3 COM FF D9   4 SOF0 341 high, 512 wide
\*   5 SOF2 0 high, 65535 wide   6 DHT   7 DAC with three conditioning entries
\*   8 SOF1 with a 3-byte payload
JpegMenu ==
    << [marker |-> 224, data |-> <<74, 70>>],
       [marker |-> 254, data |-> <<97>>],
       [marker |-> 254, data |-> <<255, 217>>],
       [marker |-> 192, data |-> <<8, 1, 85, 2, 0, 3>>],
       [marker |-> 194, data |-> <<8, 0, 0, 255, 255>>],
       [marker |-> 196, data |-> <<0, 9, 9, 9, 9>>],
       [marker |-> 204, data |-> <<0, 16, 1, 32, 2, 48>>],
       [marker |-> 193, data |-> <<8, 0, 1>>] >>

\* FF xx, 2-byte big-endian length (counting itself), payload
EncodeSegment(seg) ==
    <<255, seg.marker, (Len(seg.data) + 2) \div 256, (Len(seg.data) + 2) % 256>> \o seg.data

\* how a JPEG input ends: EOI, or SOS with its header, scan data and EOI
JpegTails == {"EOI", "SOS"}

JpegTail(tail) ==
    IF tail = "EOI" THEN <<255, 217>>
    ELSE <<255, 218, 0, 4, 1, 0, 55, 255, 217>>

JpegBytes(f) ==
    JpegMagic \o Concat([k \in 1..Len(f.items) |-> EncodeSegment(JpegMenu[f.items[k]])])
              \o JpegTail(f.tail)

PngSignature == <<137, 80, 78, 71, 13, 10, 26, 10>>

u32_to_be_bytes(w) == <<w[1] \div 256, w[1] % 256, w[2] \div 256, w[2] % 256>>

\* length, type, data, CRC32 over type ++ data
EncodeChunk(type, data) ==
    u32_to_be_bytes(<<0, Len(data)>>) \o type \o data \o u32_to_be_bytes(Crc32(type \o data))

\* first chunks the PNG inputs are built from
\*   1 IHDR 400 x 224   2 IHDR 0x80000001 x 0   3 IHDR of length 14
\*   4 IHDR of length 0
PngHeadData ==
    << <<0, 0, 1, 144, 0, 0, 0, 224, 8, 2, 0, 0, 0>>,
       <<128, 0, 0, 1, 0, 0, 0, 0, 8, 2, 0, 0, 0>>,
       <<0, 0, 1, 144, 0, 0, 0, 224, 8, 2, 0, 0, 0, 0>>,
       <<>> >>

PngHeads == [h \in 1..Len(PngHeadData) |-> EncodeChunk(IHDR, PngHeadData[h])]

\* payloads of the tEXt chunks of PngMenu
TextA == comment_keyword \o <<0, 97>>
TextB == comment_keyword \o <<0, 98, 0, 99>>
TextTitle == <<84, 0, 120>>
TextNoNul == <<99, 111>>

\* following chunks the PNG inputs are built from
\*   1 tEXt comment "a"   2 tEXt comment "b\0c"   3 tEXt T "x"
\*   4 tEXt without NUL   5 gAMA   6 IEND
PngMenu ==
    << EncodeChunk(tEXt, TextA),
       EncodeChunk(tEXt, TextB),
       EncodeChunk(tEXt, TextTitle),
       EncodeChunk(tEXt, TextNoNul),
       EncodeChunk(<<103, 65, 77, 65>>, <<0, 0, 177, 143>>),
       EncodeChunk(IEND, <<>>) >>

PngTails == {"IEND", "none"}

PngBytes(f) ==
    PngSignature \o (IF f.head = 0 THEN <<>> ELSE PngHeads[f.head])
                 \o Concat([k \in 1..Len(f.items) |-> PngMenu[f.items[k]]])
                 \o (IF f.tail = "IEND" THEN PngMenu[6] ELSE <<>>)

\* bytes of the raw inputs: 00 and the bytes of the two magic numbers
RawBytes == {0, 255, 216, 137, 80, 78, 71}

JpegFiles ==
    [fmt : {"jpeg"}, head : {0}, items : SeqsUpTo(1..Len(JpegMenu), MaxSegs), tail : JpegTails]

PngFiles ==
    [fmt : {"png"}, head : 0..Len(PngHeads), items : SeqsUpTo(1..Len(PngMenu), MaxBody),
     tail : PngTails]

RawFile == [fmt |-> "raw", head |-> 0, items |-> <<>>, tail |-> "none"]

FileBytes(f) == IF f.fmt = "jpeg" THEN JpegBytes(f) ELSE PngBytes(f)

\* damage done to an encoded file: truncation to `at` bytes (buf.truncate), or
\* byte `at` incremented (data[at].wrapping_add(1))
Undamaged == [kind |-> "none", at |-> 0]

Damages(f, bytes) ==
    {Undamaged} \cup
    IF Len(f.items) <= (IF f.fmt = "jpeg" THEN MaxMutSegs ELSE MaxMutBody)
    THEN [kind : {"truncate", "flip"}, at : 0..(Len(bytes) - 1)]
    ELSE {}

Damage(bytes, d) ==
    IF d.kind = "truncate" THEN SubSeq(bytes, 1, d.at)
    ELSE IF d.kind = "flip" THEN [bytes EXCEPT ![d.at + 1] = (@ + 1) % 256]
    ELSE bytes

(* ----------------------------------------------------------------- state *)
\* entry is the cursor at the start of the last loop iteration and segment what
\* that iteration read: the `segment` of read_jpeg_data with the kind of
\* read_segment's return value ("unread" before the first call), or kind
\* "chunk" / "None" for a PNG chunk read / the PNG loop condition found false
VARIABLES buf, file, damage, pc, position, pos, comments, dimensions, result,
          entry, segment

vars == <<buf, file, damage, pc, position, pos, comments, dimensions, result,
          entry, segment>>

\* the value of segment for a read of the given kind
Read(kind, seg) ==
    [kind |-> kind, position |-> seg.position, marker |-> seg.marker, data |-> seg.data]

Start ==
    /\ pc = "read_bytes"
    /\ position = 0
    /\ pos = 0
    /\ comments = <<>>
    /\ dimensions = None
    /\ result = NoResult
    /\ entry = 0
    /\ segment = Read("unread", NoSegment)

InitRaw ==
    /\ buf \in SeqsUpTo(RawBytes, MaxRaw)
    /\ file = RawFile
    /\ damage = Undamaged
    /\ Start

InitFile ==
    /\ file \in JpegFiles \cup PngFiles
    /\ damage \in Damages(file, FileBytes(file))
    /\ buf = Damage(FileBytes(file), damage)
    /\ Start

Init == InitRaw \/ InitFile

\* read_bytes up to the call of a scanner
ReadBytes ==
    /\ pc = "read_bytes"
    /\ LET branch == read_bytes_branch(buf)
       IN  /\ pc' = IF branch \in {"jpeg", "png"} THEN branch ELSE "done"
           /\ position' = IF branch = "jpeg" THEN 2 ELSE position
           /\ pos' = IF branch = "png" THEN 8 ELSE pos
           /\ result' = IF branch = "TooShort" THEN TooShort(too_short_length(buf))
                        ELSE IF branch = "UnknownMagic"
                        THEN UnknownMagic(u32_from_be_bytes(At(buf, 0), At(buf, 1),
                                                            At(buf, 2), At(buf, 3)))
                        ELSE result
    /\ UNCHANGED <<buf, file, damage, comments, dimensions, entry, segment>>

\* one iteration of the segment loop of read_jpeg_data
JpegSegment ==
    /\ pc = "jpeg"
    /\ LET n == jpeg_iteration(buf, [position |-> position, comments |-> comments,
                                     dimensions |-> dimensions])
       IN  /\ pc' = n.pc
           /\ position' = n.position
           /\ comments' = n.comments
           /\ dimensions' = n.dimensions
           /\ result' = n.result
    /\ entry' = position
    /\ segment' = LET s == read_segment(buf, position) IN Read(s.kind, s.segment)
    /\ UNCHANGED <<buf, file, damage, pos>>

\* context.try_into() after the loop
TryInto ==
    /\ pc = "try_into"
    /\ pc' = "done"
    /\ result' = try_from([position |-> position, comments |-> comments,
                           dimensions |-> dimensions])
    /\ UNCHANGED <<buf, file, damage, position, pos, comments, dimensions, entry, segment>>

\* one evaluation of the chunk loop of read_png_data
PngChunk ==
    /\ pc = "png"
    /\ LET n == png_iteration(buf, [pos |-> pos, comments |-> comments,
                                    dimensions |-> dimensions])
       IN  /\ pc' = n.pc
           /\ pos' = n.pos
           /\ comments' = n.comments
           /\ dimensions' = n.dimensions
           /\ result' = n.result
    /\ entry' = pos
    /\ segment' = Read(IF png_loop_condition(buf, pos) THEN "chunk" ELSE "None",
                       [NoSegment EXCEPT !.position = pos])
    /\ UNCHANGED <<buf, file, damage, position>>

\* the end of read_png_data, after the loop
PngFinish ==
    /\ pc = "png_end"
    /\ pc' = "done"
    /\ result' = png_finish([pos |-> pos, comments |-> comments, dimensions |-> dimensions])
    /\ UNCHANGED <<buf, file, damage, position, pos, comments, dimensions, entry, segment>>

Next == ReadBytes \/ JpegSegment \/ TryInto \/ PngChunk \/ PngFinish

Spec == Init /\ [][Next]_vars

\* read_bytes as a function of the buffer
read_bytes(b) ==
    LET branch == read_bytes_branch(b)
    IN  IF branch = "TooShort" THEN TooShort(too_short_length(b))
        ELSE IF branch = "jpeg" THEN read_jpeg_data(b)
        ELSE IF branch = "png" THEN read_png_data(b)
        ELSE UnknownMagic(u32_from_be_bytes(At(b, 0), At(b, 1), At(b, 2), At(b, 3)))

TypeOK ==
    /\ pc \in {"read_bytes", "jpeg", "try_into", "png", "png_end", "done"}
    /\ (pc = "done") = (result # NoResult)

(* ---------------------------------------------------------------- claims *)
Done == pc = "done"

\* the file is one of the generated files, encoded without damage
Intact(fmt) == file.fmt = fmt /\ damage = Undamaged

\* C1: read_bytes returns an ImageMetadata or a typed DecodingError for every
\* buffer, prefixes of valid files included: no step indexes past the end of
\* the buffer or aborts.
C1_NeverAborts == result.tag # "Panic"

\* C2: on a buffer of n < 4 bytes read_bytes returns TooShort(n).
C2_TooShortCarriesLength == (Done /\ Len(buf) < 4) => result = TooShort(Len(buf))

\* C3: a buffer of at least 4 bytes is routed by its magic bytes: FF D8 gives
\* the JPEG scanner's outcome, 89 50 4E 47 the PNG scanner's outcome, anything
\* else UnknownMagic of the first four bytes as a big-endian 32-bit value.
C3_RoutesByMagic ==
    /\ pc = "jpeg" => (Len(buf) >= 4 /\ buf[1] = 255 /\ buf[2] = 216)
    /\ pc = "png" =>
          (Len(buf) >= 4 /\ buf[1] = 137 /\ buf[2] = 80 /\ buf[3] = 78 /\ buf[4] = 71)
    /\ (Done /\ Len(buf) >= 4) =>
          IF buf[1] = 255 /\ buf[2] = 216
          THEN result = read_jpeg_data(buf)
          ELSE IF buf[1] = 137 /\ buf[2] = 80 /\ buf[3] = 78 /\ buf[4] = 71
          THEN result = read_png_data(buf)
          ELSE result = UnknownMagic(<<(buf[1] * 256) + buf[2], (buf[3] * 256) + buf[4]>>)

\* C3 witness: 00 00 00 00 was answered with UnknownMagic(0)
C3_Witness == Done /\ buf = <<0, 0, 0, 0>> /\ result = UnknownMagic(<<0, 0>>)

\* the indices of f.items that select a Start-Of-Frame segment of JpegMenu
SofItems(f) == {k \in 1..Len(f.items) : JpegMenu[f.items[k]].marker \in {192, 193, 194}}

\* every Start-Of-Frame segment of the file holds the 5 bytes of precision,
\* height and width
WellFormedSofs(f) == \A k \in SofItems(f) : Len(JpegMenu[f.items[k]].data) >= 5

\* the indices of f.items whose segment read_jpeg_data records dimensions from
RecordedItems(f) ==
    {k \in 1..Len(f.items) :
         is_sof([NoSegment EXCEPT !.marker = 65280 + JpegMenu[f.items[k]].marker])}

\* C4: for a well-formed JPEG with exactly one SOF segment the width is the
\* 16-bit big-endian value at payload offsets 3-4 and the height the one at
\* offsets 1-2, widened to 32 bits unchanged.
C4_JpegDimensions ==
    (Done /\ Intact("jpeg") /\ WellFormedSofs(file) /\ Cardinality(SofItems(file)) = 1) =>
        LET payload == JpegMenu[file.items[CHOOSE k \in SofItems(file) : TRUE]].data
        IN  /\ result.tag = "Ok"
            /\ result.width = <<0, (payload[4] * 256) + payload[5]>>
            /\ result.height = <<0, (payload[2] * 256) + payload[3]>>

\* the same for the files in which the SOF is the only segment the scanner
\* records dimensions from
C4_SofOnlyRecorded ==
    (Done /\ Intact("jpeg") /\ WellFormedSofs(file) /\ Cardinality(SofItems(file)) = 1
          /\ RecordedItems(file) = SofItems(file)) =>
        LET payload == JpegMenu[file.items[CHOOSE k \in SofItems(file) : TRUE]].data
        IN  /\ result.tag = "Ok"
            /\ result.width = <<0, (payload[4] * 256) + payload[5]>>
            /\ result.height = <<0, (payload[2] * 256) + payload[3]>>

\* C4 witness: a JPEG whose only SOF holds height 0 and width 65535 decoded
C4_Witness ==
    /\ Done /\ Intact("jpeg") /\ Cardinality(SofItems(file)) = 1
    /\ Len(file.items) = 3
    /\ result.tag = "Ok" /\ result.width = <<0, 65535>> /\ result.height = <<0, 0>>

\* C5: with more than one SOF segment before EOI/SOS, a successful result has
\* the dimensions of the first SOF: a recorded pair is never overwritten.
C5_FirstSofWins ==
    (Done /\ Intact("jpeg") /\ SofItems(file) # {} /\ result.tag = "Ok") =>
        LET first == CHOOSE k \in SofItems(file) : \A j \in SofItems(file) : k <= j
            payload == JpegMenu[file.items[first]].data
        IN  /\ result.width = <<0, (payload[4] * 256) + payload[5]>>
            /\ result.height = <<0, (payload[2] * 256) + payload[3]>>

\* a PNG as the format describes it: signature, a 13-byte IHDR, chunks that
\* are neither IHDR nor IEND, tEXt payloads with their NUL separator, IEND
WellFormedPng(f) ==
    /\ f.fmt = "png"
    /\ f.head \in {1, 2}
    /\ f.tail = "IEND"
    /\ \A k \in 1..Len(f.items) : f.items[k] \in {1, 2, 3, 5}

\* C6: for a well-formed PNG the width is the first big-endian 32-bit field
\* of the IHDR payload and the height the second, all 32 bits kept.
C6_PngDimensions ==
    (Done /\ damage = Undamaged /\ WellFormedPng(file)) =>
        LET payload == PngHeadData[file.head]
        IN  /\ result.tag = "Ok"
            /\ result.width = <<(payload[1] * 256) + payload[2], (payload[3] * 256) + payload[4]>>
            /\ result.height = <<(payload[5] * 256) + payload[6], (payload[7] * 256) + payload[8]>>

\* C6 witness: a PNG of width 0x80000001 and height 0 decoded with them
C6_Witness ==
    /\ Done /\ damage = Undamaged /\ WellFormedPng(file) /\ Len(file.items) = 2
    /\ result.tag = "Ok" /\ result.width = <<32768, 1>> /\ result.height = <<0, 0>>

\* the comment an item of a generated file carries, <<>> when it carries none:
\* the payload of a COM segment, the text after "comment" NUL of a tEXt chunk
ItemComment(fmt, i) ==
    IF fmt = "jpeg"
    THEN IF JpegMenu[i].marker = 254 THEN <<JpegMenu[i].data>> ELSE <<>>
    ELSE IF i = 1 THEN << <<97>> >>
    ELSE IF i = 2 THEN << <<98, 0, 99>> >>
    ELSE <<>>

RECURSIVE ExpectedComments(_, _)
ExpectedComments(fmt, items) ==
    IF items = <<>> THEN <<>>
    ELSE ItemComment(fmt, Head(items)) \o ExpectedComments(fmt, Tail(items))

IsPrefix(s, t) == Len(s) <= Len(t) /\ SubSeq(t, 1, Len(s)) = s

\* C7: in both scanners the comment list only grows, in stream order: the
\* comments of a result are the COM payloads, respectively the texts of the
\* tEXt chunks keyed "comment", in buffer order, duplicates kept.
C7_CommentsInStreamOrder ==
    (damage = Undamaged /\ (file.fmt = "jpeg" \/ WellFormedPng(file))) =>
        /\ IsPrefix(comments, ExpectedComments(file.fmt, file.items))
        /\ (Done /\ result.tag = "Ok") =>
               result.comments = ExpectedComments(file.fmt, file.items)

\* C7 witness: a PNG with two different comment chunks decoded with both, in
\* their order
C7_Witness ==
    /\ Done /\ damage = Undamaged /\ WellFormedPng(file)
    /\ file.items = <<2, 1>>
    /\ result.tag = "Ok" /\ result.comments = << <<98, 0, 99>>, <<97>> >>

\* the chunks of a generated PNG, in file order
PngChunks(f) ==
    (IF f.head = 0 THEN <<>> ELSE <<PngHeads[f.head]>>)
        \o [k \in 1..Len(f.items) |-> PngMenu[f.items[k]]]
        \o (IF f.tail = "IEND" THEN <<PngMenu[6]>> ELSE <<>>)

\* offset of chunk k of a generated PNG
ChunkStart(f, k) == Len(PngSignature \o Concat(SubSeq(PngChunks(f), 1, k - 1)))

\* offset p lies in the 4-byte length field of some chunk
InLengthField(f, p) ==
    \E k \in 1..Len(PngChunks(f)) : ChunkStart(f, k) <= p /\ p < ChunkStart(f, k) + 4

\* C8: in a well-formed PNG, changing one byte of the CRC, type or payload of
\* any chunk, IHDR to the final IEND included, gives InvalidChunkCrc.
C8_ChangedByteGivesInvalidCrc ==
    (Done /\ WellFormedPng(file) /\ damage.kind = "flip"
          /\ damage.at >= Len(PngSignature) /\ ~InLengthField(file, damage.at)) =>
        result = InvalidChunkCrc

\* C9: an in-bounds, CRC-valid IHDR chunk of declared length L # 13 gives
\* InvalidIHDRLength(L), whatever follows it.
C9_IhdrLengthRejected ==
    (Done /\ Intact("png") /\ file.head \in {3, 4}) =>
        result = InvalidIHDRLength(<<0, Len(PngHeadData[file.head])>>)

\* C10: a PNG whose scanned chunks are all in bounds and CRC-valid and none
\* of which is IHDR gives MissingIHDR.
C10_NoIhdrGivesMissingIhdr ==
    (Done /\ Intact("png") /\ file.head = 0) => result = MissingIHDR

\* read_bytes handed the buffer to the JPEG / the PNG scanner
ScannedAsJpeg == Len(buf) >= 4 /\ buf[1] = 255 /\ buf[2] = 216
ScannedAsPng == Len(buf) >= 4 /\ buf[1] = 137 /\ buf[2] = 80 /\ buf[3] = 78 /\ buf[4] = 71

\* C11: when the JPEG scan ends without error (EOI, SOS or end of buffer) and
\* no SOF was recorded, the result is NoSofMarker carrying exactly the COM
\* payloads collected so far, in order; a failure never carries an
\* ImageMetadata.
C11_NoSofCarriesComments ==
    /\ (Done /\ ScannedAsJpeg /\ result.tag \in {"Ok", "Jpeg.NoSofMarker"}) =>
           /\ (dimensions = None) => result = NoSofMarker(position, comments)
           /\ (dimensions # None) => result.tag = "Ok"
    /\ (Done /\ Intact("jpeg") /\ SofItems(file) = {}) =>
           /\ result.tag = "Jpeg.NoSofMarker"
           /\ result.comments = ExpectedComments("jpeg", file.items)
    /\ (Done /\ result.tag # "Ok") => (result.width = <<0, 0>> /\ result.height = <<0, 0>>)

\* the same for the files in which the scanner records dimensions from no
\* segment at all
C11_NothingRecorded ==
    /\ (Done /\ ScannedAsJpeg /\ result.tag \in {"Ok", "Jpeg.NoSofMarker"}) =>
           /\ (dimensions = None) => result = NoSofMarker(position, comments)
           /\ (dimensions # None) => result.tag = "Ok"
    /\ (Done /\ Intact("jpeg") /\ RecordedItems(file) = {}) =>
           /\ result.tag = "Jpeg.NoSofMarker"
           /\ result.comments = ExpectedComments("jpeg", file.items)
    /\ (Done /\ result.tag # "Ok") => (result.width = <<0, 0>> /\ result.height = <<0, 0>>)

\* C11 witness: a JPEG with two COM segments and no SOF gave NoSofMarker with
\* both comments
C11_Witness ==
    /\ Done /\ Intact("jpeg") /\ file.items = <<2, 3>>
    /\ result.tag = "Jpeg.NoSofMarker"
    /\ result.comments = << <<97>>, <<255, 217>> >>

\* the JPEG loop has called read_segment at least once
JpegRead == ScannedAsJpeg /\ segment.kind \in {"None", "Some", "Err", "Panic"}

\* smallest offset at or after `from` that holds 0xFF followed by a byte
\* greater than 0x01, or -1 when the buffer has none
ResyncTarget(b, from) ==
    LET hits == {p \in from..(Len(b) - 2) : At(b, p) = 255 /\ At(b, p + 1) > 1}
    IN  IF hits = {} THEN -1
        ELSE CHOOSE p \in hits : \A q \in hits : p <= q

\* C12: when the byte at the JPEG cursor is not 0xFF, read_segment reads at the
\* smallest later offset holding 0xFF followed by a byte above 0x01 (outcome and
\* reported position are those of a read starting there); when no such offset
\* exists it returns None, not an error
C12_ResyncToNextMarker ==
    (JpegRead /\ get(buf, entry) # 255) =>
        LET t == ResyncTarget(buf, entry)
        IN  IF t = -1 THEN segment.kind = "None"
            ELSE LET s == read_segment(buf, t)
                 IN  /\ segment = Read(s.kind, s.segment)
                     /\ segment.kind = "Some" => segment.position = t
                     /\ pc = "jpeg" => position = s.position

C12_Witness ==
    /\ JpegRead /\ get(buf, entry) # 255
    /\ segment.kind = "Some" /\ segment.position > entry
    /\ segment.position = ResyncTarget(buf, entry)

\* the PNG loop has executed the body of an iteration
PngRead == ScannedAsPng /\ segment.kind = "chunk"

\* every executed loop iteration leaves the cursor inside the buffer and, when
\* the loop goes round again, strictly beyond where the iteration began (the
\* resync walk never moves it backwards)
CursorAdvances ==
    /\ JpegRead => (entry <= position /\ position <= Len(buf))
    /\ (JpegRead /\ pc = "jpeg") => position > entry
    /\ PngRead => (entry < pos /\ pos <= Len(buf))

\* C13: both scanners terminate on every buffer: each iteration of the JPEG
\* segment loop and of the PNG chunk loop strictly increases the cursor, the
\* cursor stays within the buffer, and the call ends by returning a result or
\* an error.
C13_ScannersTerminate ==
    /\ CursorAdvances
    /\ Done => result.tag \notin {"None", "Panic"}

\* offset at which the last read_segment call looked for its marker: the cursor
\* itself when it held 0xFF, else the resync target (-1 when there was none)
MarkerAt == IF get(buf, entry) = 255 THEN entry ELSE ResyncTarget(buf, entry)

\* the last read_segment call found a 2-byte marker word at MarkerAt
MarkerRead == JpegRead /\ MarkerAt # -1 /\ MarkerAt + 1 < Len(buf)

MarkerWord == u16_from_be_bytes(At(buf, MarkerAt), At(buf, MarkerAt + 1))

\* the marker is followed by its 2-byte length field, whose value is DeclaredLen
LengthRead == MarkerRead /\ MarkerAt + 3 < Len(buf)

DeclaredLen == u16_from_be_bytes(At(buf, MarkerAt + 2), At(buf, MarkerAt + 3))

\* C14: a marker other than SOI/EOI/SOS followed by a 2-byte length L is
\* accepted exactly when L >= 2 and the L-2 payload bytes after the length
\* field lie within the buffer (a payload ending at the end of the buffer
\* included), with those bytes as payload; otherwise the scanner returns
\* InvalidSegmentLength(L).
C14_SegmentLengthChecked ==
    (LengthRead /\ MarkerWord >= 65281 /\ MarkerWord # 65535
                /\ MarkerWord \notin {65496, 65497, 65498}) =>
        IF DeclaredLen >= 2 /\ MarkerAt + 4 + (DeclaredLen - 2) <= Len(buf)
        THEN /\ segment.kind = "Some"
             /\ segment.data = Slice(buf, MarkerAt + 4, MarkerAt + 4 + (DeclaredLen - 2))
        ELSE /\ Done
             /\ result = InvalidSegmentLength(DeclaredLen)

\* the same with the bound the code applies: L bytes after the length field
C14_AsCoded ==
    (LengthRead /\ MarkerWord \notin {65496, 65497}) =>
        IF DeclaredLen >= 2 /\ MarkerAt + 4 + DeclaredLen <= Len(buf)
        THEN /\ segment.kind = "Some"
             /\ segment.data = Slice(buf, MarkerAt + 4, MarkerAt + 4 + (DeclaredLen - 2))
        ELSE /\ Done
             /\ result = InvalidSegmentLength(DeclaredLen)

\* C15: a read that finds EOI (FFD9) or SOS (FFDA) ends the scan on the success
\* path whatever follows the marker: with dimensions recorded before it, the
\* loop is left and the result is the ImageMetadata of what was collected.
C15_SosOrEoiStopsScan ==
    (MarkerRead /\ MarkerWord \in {65497, 65498} /\ dimensions # None) =>
        \/ pc = "try_into"
        \/ Done /\ result = ImageMetadata(dimensions[1], dimensions[2], comments)

\* the same for EOI alone
C15_EoiStopsScan ==
    (MarkerRead /\ MarkerWord = 65497 /\ dimensions # None) =>
        \/ pc = "try_into"
        \/ Done /\ result = ImageMetadata(dimensions[1], dimensions[2], comments)

\* C16: an SOI marker (FFD8) met after the initial one is a no-op: no error is
\* returned, the cursor moves past its 2 bytes and the scan goes on with the
\* marker that follows.
C16_SecondSoiIsSkipped ==
    (MarkerRead /\ MarkerWord = 65496) =>
        /\ pc = "jpeg"
        /\ position = MarkerAt + 2
        /\ result = NoResult

\* result tags of the typed errors of read_png_data
PngErrors == {"Png.MissingIHDR", "Png.InvalidIHDRLength", "Png.InvalidChunkCrc"}

\* C17: a PNG in which a CRC-valid, in-bounds tEXt chunk without NUL in its
\* payload is scanned gives a typed error of the PNG scanner: no abort, and the
\* chunk is not skipped on the way to a success.
C17_TextWithoutNulIsError ==
    (Done /\ Intact("png") /\ file.head \in {0, 1, 2}
          /\ \E k \in 1..Len(file.items) :
                 /\ file.items[k] = 4
                 /\ \A j \in 1..(k - 1) : file.items[j] # 6) =>
        result.tag \in PngErrors

\* the 32-bit length field of the chunk the last PNG iteration read
ChunkLength ==
    u32_from_be_bytes(At(buf, entry), At(buf, entry + 1), At(buf, entry + 2), At(buf, entry + 3))

\* cursor + length + 4 exceeds the buffer length, the cursor being just past the
\* chunk's type; the sum is the mathematical one (a length of 2^16 or more
\* exceeds every buffer here)
ChunkOverruns == ChunkLength[1] > 0 \/ entry + 8 + ChunkLength[2] + 4 > Len(buf)

C19_InvalidMarkerRejected ==
    (MarkerRead /\ (MarkerWord < 65281 \/ MarkerWord = 65535)) =>
        /\ Done
        /\ result.tag = "Jpeg.InvalidFrameMarker"
        /\ result.n = MarkerWord

\* the same when the two bytes after the marker are a length that the segment
\* check accepts
C19_AsCoded ==
    (LengthRead /\ (MarkerWord < 65281 \/ MarkerWord = 65535)
                /\ DeclaredLen >= 2 /\ MarkerAt + 4 + DeclaredLen <= Len(buf)) =>
        /\ Done
        /\ result = InvalidFrameMarker(MarkerWord, MarkerAt + 4 + (DeclaredLen - 2))

\* FFC0-FFC3, FFC5-FFC7, FFC9-FFCB, FFCD-FFCF
SofMarkers == (65472..65475) \cup (65477..65479) \cup (65481..65483) \cup (65485..65487)

\* FFC4 (DHT), FFC8 (JPG) and the marker words FFxx outside FFC0-FFCF
NotSofMarkers == {65476, 65480} \cup (65280..65471) \cup (65488..65535)

\* a segment that carries the marker m
WithMarker(m) == [NoSegment EXCEPT !.marker = m]

\* C20: is_sof holds for the markers FFC0-FFC3, FFC5-FFC7, FFC9-FFCB and
\* FFCD-FFCF, and for none of FFC4, FFC8 and the markers outside FFC0-FFCF; a
\* step of the JPEG scanner changes the dimensions only when is_sof holds for
\* the segment it read.
C20_OnlySofSetsDimensions ==
    /\ \A m \in SofMarkers : is_sof(WithMarker(m))
    /\ \A m \in NotSofMarkers : ~is_sof(WithMarker(m))
    /\ [][(pc = "jpeg" /\ dimensions' # dimensions) =>
              /\ segment'.kind = "Some"
              /\ is_sof(WithMarker(segment'.marker))
              /\ segment'.marker \notin NotSofMarkers]_vars

\* a segment with marker FFC5 read and its payload taken as the dimensions
C20_Witness ==
    /\ JpegRead /\ pc = "jpeg"
    /\ segment.kind = "Some" /\ segment.marker = 65477
    /\ dimensions = <<u32_from_u16(u16_from_be_bytes(segment.data[4], segment.data[5])),
                      u32_from_u16(u16_from_be_bytes(segment.data[2], segment.data[3]))>>

\* C21: a DAC segment (FFCC) is not a Start-Of-Frame segment: the step that
\* reads one leaves the dimensions as they were and goes on scanning, so the
\* DAC payload never becomes the width and height.
C21_DacIsNotSof ==
    [][(pc = "jpeg" /\ segment'.kind = "Some" /\ segment'.marker = 65484) =>
           (dimensions' = dimensions /\ pc' = "jpeg")]_vars

PngLoopLeft == ScannedAsPng /\ segment.kind = "None" /\ pc \in {"png_end", "done"}

\* C23: the PNG scanner processes a chunk whenever at least 12 bytes remain at
\* the cursor, exactly 12 included: the loop is left by its condition only
\* when fewer than 12 bytes remain.
C23_TwelveBytesAreProcessed ==
    PngLoopLeft => Len(buf) - entry < 12

\* the same with the bound the code applies: at most 12 bytes remain
C23_AsCoded ==
    PngLoopLeft => Len(buf) - entry <= 12

\* "comment"
CommentLiteral == <<99, 111, 109, 109, 101, 110, 116>>

\* 1-based index of the first NUL of a payload, 0 when it has none
FirstNul(data) ==
    IF \E k \in 1..Len(data) : data[k] = 0
    THEN CHOOSE k \in 1..Len(data) : data[k] = 0 /\ \A j \in 1..(k - 1) : data[j] # 0
    ELSE 0

\* type and payload of the chunk at the cursor, for a chunk that lies within
\* the buffer
TypeAtCursor == SubSeq(buf, pos + 5, pos + 8)
PayloadAtCursor ==
    SubSeq(buf, pos + 9, pos + 8 + u16_from_be_bytes(At(buf, pos + 2), At(buf, pos + 3)))

\* the chunk at the cursor is a tEXt chunk whose payload, up to its first NUL,
\* is "comment"
CommentAtCursor ==
    /\ TypeAtCursor = <<116, 69, 88, 116>>
    /\ FirstNul(PayloadAtCursor) # 0
    /\ SubSeq(PayloadAtCursor, 1, FirstNul(PayloadAtCursor) - 1) = CommentLiteral

\* the chunk at the cursor is one the scanner ignores: a tEXt chunk with a NUL
\* and another keyword, or a chunk that is none of IHDR, tEXt and IEND
IgnoredAtCursor ==
    \/ /\ TypeAtCursor = <<116, 69, 88, 116>>
       /\ FirstNul(PayloadAtCursor) # 0
       /\ ~CommentAtCursor
    \/ TypeAtCursor \notin {<<73, 72, 68, 82>>, <<116, 69, 88, 116>>, <<73, 69, 78, 68>>}

\* C24: a step of the PNG scanner adds a comment exactly when the chunk it reads
\* (in bounds, CRC-valid) is a tEXt chunk whose payload up to the first NUL is
\* "comment", and the comment added is the payload after that NUL; a tEXt chunk
\* with another keyword and a chunk of another type leave the comments as they
\* were, and an ignored chunk only moves the cursor past it.
C24_OnlyCommentTextIsAdded ==
    [][pc = "png" =>
         IF segment'.kind = "chunk" /\ ~ChunkOverruns' /\ result' # InvalidChunkCrc
         THEN /\ CommentAtCursor =>
                    comments' = Append(comments,
                                       SubSeq(PayloadAtCursor, FirstNul(PayloadAtCursor) + 1,
                                              Len(PayloadAtCursor)))
              /\ ~CommentAtCursor => comments' = comments
              /\ IgnoredAtCursor =>
                    /\ pc' = "png"
                    /\ pos' = pos + 12 + Len(PayloadAtCursor)
                    /\ dimensions' = dimensions
         ELSE comments' = comments]_vars

\* the chunk tEXt "comment" NUL "b" NUL "c" added the comment "b" NUL "c" after
\* a comment that was already collected
C24_Witness ==
    /\ PngRead /\ pc = "png"
    /\ SubSeq(buf, entry + 5, entry + 8) = <<116, 69, 88, 116>>
    /\ Len(comments) = 2
    /\ comments[2] = <<98, 0, 99>>

====
